---- MODULE Spec2Model ----
(***************************************************************************)
(* A model of spirq's lib.rs: the SpirvBinary byte ingress, the Manifest   *)
(* record, Manifest::merge with its four sub-merges, and the interface     *)
(* variable and descriptor resolvers.                                      *)
(*                                                                         *)
(* Hash maps are functions whose DOMAIN is the key set.  Types that live   *)
(* in ty.rs (Type, DescriptorType) are opaque numbered values.  Names are  *)
(* numbered strings.                                                       *)
(***************************************************************************)
EXTENDS Integers, Sequences, FiniteSets, TLC

(***************************************************************************)
(* Bounds of the model.                                                    *)
(***************************************************************************)
MaxLoc == 1
MaxComp == 0
MaxSet == 0
MaxBind == 1
NumTy == 2
NumDescTy == 3
HashMod == 2
NumNames == 1
MaxOffset == 1
MaxEntries == 2
MaxMerges == 1
ChainEntries == 1
MaxChain == 2
MaxIndex == 1
MaxSegs == 3
MaxOtherByte == 0
MaxWords == 2
MaxTail == 1

(***************************************************************************)
(* Resource locationing.                                                   *)
(***************************************************************************)
\* InterfaceLocation(u32, u32): location and component.
InterfaceLocation == (0..MaxLoc) \X (0..MaxComp)

\* DescriptorBinding(u32, u32): descriptor set and binding point.
DescriptorBinding == (0..MaxSet) \X (0..MaxBind)

\* enum ResourceLocator { Input(loc), Output(loc), Descriptor(bind) }
ResourceLocator ==
    [kind : {"Input", "Output"}, at : InterfaceLocation]
        \cup [kind : {"Descriptor"}, at : DescriptorBinding]

\* ty::Type values stored in the interface maps and in struct members.
Type == 1..NumTy

\* ty::DescriptorType values stored in desc_map.
DescriptorType == 1..NumDescTy

\* Variable names (keys of var_name_map).
Names == 1..NumNames

\* enum AccessType { ReadOnly = 1, WriteOnly = 2, ReadWrite = 3 }
ReadOnly == 1
WriteOnly == 2
ReadWrite == 3
AccessType == {ReadOnly, WriteOnly, ReadWrite}

(***************************************************************************)
(* hash(): DefaultHasher over the value's Hash implementation.  The hasher *)
(* folds a structured value into one u64, so it is not injective; the      *)
(* model keeps that by folding the type values into HashMod buckets.       *)
(***************************************************************************)
hash(h) == h % HashMod

(***************************************************************************)
(* Map helpers.                                                            *)
(***************************************************************************)
EmptyMap == << >>

\* HashMap::insert on a key (vacant or occupied).
Put(map, k, v) == [x \in (DOMAIN map) \cup {k} |-> IF x = k THEN v ELSE map[x]]

\* All maps from at most n keys of K to values of V.
MapsUpTo(K, V, n) ==
    UNION {[S -> V] : S \in {T \in SUBSET K : Cardinality(T) <= n}}

\* The iteration orders a HashMap can give its keys.
Orders(S) ==
    {o \in [1..Cardinality(S) -> S] : \A i, j \in 1..Cardinality(S) : o[i] = o[j] => i = j}

(***************************************************************************)
(* Push constant types: Option<Type>, a Struct when present.  A struct is  *)
(* its member table, offset -> member type.                                *)
(***************************************************************************)
NoneTy == [some |-> FALSE, members |-> EmptyMap]

SomeStruct(members) == [some |-> TRUE, members |-> members]

Offsets == 0..MaxOffset

\* StructType::merge (ty.rs): member-wise; members at equal offsets must have
\* equal types, disjoint members are unioned.
StructType_merge(dst, src) ==
    IF \E off \in (DOMAIN dst) \cap (DOMAIN src) : dst[off] /= src[off]
    THEN [ok |-> FALSE, members |-> dst]
    ELSE [ok |-> TRUE,
          members |-> [off \in (DOMAIN dst) \cup (DOMAIN src) |->
                          IF off \in DOMAIN dst THEN dst[off] ELSE src[off]]]

(***************************************************************************)
(* struct Manifest                                                         *)
(***************************************************************************)
Manifest(pc, im, om, dm, nm, am) ==
    [push_const_ty |-> pc, input_map |-> im, output_map |-> om,
     desc_map |-> dm, var_name_map |-> nm, desc_access_map |-> am]

\* Manifest::default()
DefaultManifest == Manifest(NoneTy, EmptyMap, EmptyMap, EmptyMap, EmptyMap, EmptyMap)

\* Number of records a manifest holds.
Entries(m) ==
    Cardinality(DOMAIN m.push_const_ty.members)
        + Cardinality(DOMAIN m.input_map) + Cardinality(DOMAIN m.output_map)
        + Cardinality(DOMAIN m.desc_map) + Cardinality(DOMAIN m.var_name_map)

\* The manifests of at most n records that reflection hands out: every
\* descriptor is recorded with its type and its access.
Manifests(n) ==
    UNION { UNION { UNION { UNION {
        { Manifest(pc, im, om,
                   [b \in DOMAIN ds |-> ds[b][1]], nm,
                   [b \in DOMAIN ds |-> ds[b][2]]) :
            nm \in MapsUpTo(Names, ResourceLocator,
                            n - Cardinality(DOMAIN pc.members) - Cardinality(DOMAIN im)
                              - Cardinality(DOMAIN om) - Cardinality(DOMAIN ds)) } :
          ds \in MapsUpTo(DescriptorBinding, DescriptorType \X AccessType,
                          n - Cardinality(DOMAIN pc.members) - Cardinality(DOMAIN im)
                            - Cardinality(DOMAIN om)) } :
        om \in MapsUpTo(InterfaceLocation, Type,
                        n - Cardinality(DOMAIN pc.members) - Cardinality(DOMAIN im)) } :
      im \in MapsUpTo(InterfaceLocation, Type, n - Cardinality(DOMAIN pc.members)) } :
    pc \in {NoneTy} \cup {SomeStruct(s) : s \in MapsUpTo(Offsets, Type, n) \ {EmptyMap}} }

(***************************************************************************)
(* Manifest::merge and its parts.  Each part returns the status and the    *)
(* manifest as the call leaves it.                                         *)
(***************************************************************************)
Ok(m) == [res |-> "Ok", m |-> m]
Err(m) == [res |-> "Err", m |-> m]
Panic(m) == [res |-> "Panic", m |-> m]

\* merge_push_const without its else branch: a manifest that has no push
\* constant type never takes the other's.
merge_push_const_keep(self, other) ==
    IF self.push_const_ty.some /\ other.push_const_ty.some
    THEN LET r == StructType_merge(self.push_const_ty.members,
                                   other.push_const_ty.members)
         IN  IF r.ok
             THEN Ok([self EXCEPT !.push_const_ty = SomeStruct(r.members)])
             ELSE Err(self)
    ELSE Ok(self)

\* fn merge_push_const(&mut self, other)
merge_push_const(self, other) ==
    IF self.push_const_ty.some
    THEN IF other.push_const_ty.some
         THEN LET r == StructType_merge(self.push_const_ty.members,
                                        other.push_const_ty.members)
              IN  IF r.ok
                  THEN Ok([self EXCEPT !.push_const_ty = SomeStruct(r.members)])
                  ELSE Err(self)
         ELSE Ok(self)
    ELSE Ok([self EXCEPT !.push_const_ty = other.push_const_ty])

\* The loop of merge_descs over other.desc_map in iteration order `order`.
RECURSIVE merge_descs_loop(_, _, _)
merge_descs_loop(dst, src, order) ==
    IF order = << >> THEN [ok |-> TRUE, map |-> dst]
    ELSE LET desc_bind == Head(order)
         IN  IF desc_bind \notin DOMAIN dst
             THEN merge_descs_loop(Put(dst, desc_bind, src[desc_bind]), src, Tail(order))
             ELSE IF hash(dst[desc_bind]) /= hash(src[desc_bind])
                  THEN [ok |-> FALSE, map |-> dst]
                  ELSE merge_descs_loop(dst, src, Tail(order))

\* merge_descs that overwrites an occupied entry with the other's type.
merge_descs_overwrite(self, other, order) ==
    LET r == merge_descs_loop(self.desc_map, other.desc_map, order)
        m == [self EXCEPT !.desc_map =
                 [b \in DOMAIN r.map |->
                     IF r.ok /\ b \in DOMAIN other.desc_map
                     THEN other.desc_map[b] ELSE r.map[b]]]
    IN  IF r.ok THEN Ok(m) ELSE Err(m)

\* fn merge_descs(&mut self, other)
merge_descs(self, other, order) ==
    LET r == merge_descs_loop(self.desc_map, other.desc_map, order)
        m == [self EXCEPT !.desc_map = r.map]
    IN  IF r.ok THEN Ok(m) ELSE Err(m)

\* The loop of merge_names over other.var_name_map in iteration order `order`.
RECURSIVE merge_names_loop(_, _, _)
merge_names_loop(dst, src, order) ==
    IF order = << >> THEN [ok |-> TRUE, map |-> dst]
    ELSE LET name == Head(order)
         IN  IF name \notin DOMAIN dst
             THEN merge_names_loop(Put(dst, name, src[name]), src, Tail(order))
             ELSE IF dst[name] /= src[name]
                  THEN [ok |-> FALSE, map |-> dst]
                  ELSE merge_names_loop(dst, src, Tail(order))

\* merge_names that overwrites an occupied entry instead of comparing it.
merge_names_overwrite(self, other, order) ==
    Ok([self EXCEPT !.var_name_map =
           [n \in (DOMAIN self.var_name_map) \cup (DOMAIN other.var_name_map) |->
               IF n \in DOMAIN other.var_name_map
               THEN other.var_name_map[n] ELSE self.var_name_map[n]]])

\* fn merge_names(&mut self, other)
merge_names(self, other, order) ==
    LET r == merge_names_loop(self.var_name_map, other.var_name_map, order)
        m == [self EXCEPT !.var_name_map = r.map]
    IN  IF r.ok THEN Ok(m) ELSE Err(m)

\* u32 | u32
RECURSIVE BitOr(_, _)
BitOr(a, b) ==
    IF a = 0 THEN b
    ELSE IF b = 0 THEN a
    ELSE (IF a % 2 = 1 \/ b % 2 = 1 THEN 1 ELSE 0) + 2 * BitOr(a \div 2, b \div 2)

\* AccessType::from_u32 (derived FromPrimitive) succeeds on a discriminant.
from_u32_is_some(n) == n \in AccessType

\* The access of the other manifest stored without the OR.
access_overwrite(acc, access) == access

\* `*acc as u32 | *access as u32`
access_combine(acc, access) == BitOr(acc, access)

\* fn merge_accesses(&mut self, other): each binding of other is OR-ed into
\* the entry self holds, or inserted; unwrap() panics on a non-discriminant.
merge_accesses(self, other) ==
    LET dst == self.desc_access_map
        src == other.desc_access_map
        both == (DOMAIN dst) \cap (DOMAIN src)
        map == [b \in (DOMAIN dst) \cup (DOMAIN src) |->
                   IF b \in both THEN access_combine(dst[b], src[b])
                   ELSE IF b \in DOMAIN dst THEN dst[b] ELSE src[b]]
    IN  IF \E b \in both : ~from_u32_is_some(access_combine(dst[b], src[b]))
        THEN Panic(self)
        ELSE Ok([self EXCEPT !.desc_access_map = map])

\* Outputs replaced only when the other manifest has outputs.
merge_outputs_unless_empty(self, other) ==
    IF other.output_map = EmptyMap THEN self
    ELSE [self EXCEPT !.output_map = other.output_map]

\* Outputs taken from the other manifest's input map.
merge_outputs_from_inputs(self, other) == [self EXCEPT !.output_map = other.input_map]

\* `self.output_map = other.output_map.clone()`
merge_outputs(self, other) == [self EXCEPT !.output_map = other.output_map]

\* pub fn merge(&mut self, other), with the iteration orders of other's
\* desc_map and var_name_map.
merge(self, other, dorder, norder) ==
    LET m0 == merge_outputs(self, other)
        r1 == merge_push_const(m0, other)
    IN  IF r1.res /= "Ok" THEN r1
        ELSE LET r2 == merge_descs(r1.m, other, dorder)
             IN  IF r2.res /= "Ok" THEN r2
                 ELSE LET r3 == merge_names(r2.m, other, norder)
                      IN  IF r3.res /= "Ok" THEN r3
                          ELSE merge_accesses(r3.m, other)

(***************************************************************************)
(* Symbols (sym.rs): a symbol is a sequence of segments; a segment is an   *)
(* index, a name, or empty (only as the leading segment).                  *)
(***************************************************************************)
SegIndex(i) == [k |-> "Index", v |-> i]
SegName(n) == [k |-> "Name", v |-> n]
SegEmpty == [k |-> "Empty", v |-> 0]

Seg == {SegIndex(i) : i \in 0..MaxIndex} \cup {SegName(n) : n \in Names} \cup {SegEmpty}

Sym ==
    UNION {{s \in [1..n -> Seg] : \A i \in 2..n : s[i] /= SegEmpty} : n \in 0..MaxSegs}

\* Segs::next(): the segment at position i, when there is one.
HasSeg(sym, i) == i <= Len(sym)

(***************************************************************************)
(* Interface variable resolution.                                          *)
(***************************************************************************)
NoResolution == [some |-> FALSE, location |-> <<0, 0>>, ty |-> 0]

InterfaceVariableResolution(location, ty) ==
    [some |-> TRUE, location |-> location, ty |-> ty]

\* The tail of resolve_ivar once the location is known: no further segment,
\* then the lookup in `map`.
resolve_ivar_at(map, sym, used, location) ==
    IF HasSeg(sym, used + 1) THEN NoResolution
    ELSE IF location \notin DOMAIN map THEN NoResolution
    ELSE InterfaceVariableResolution(location, map[location])

\* fn resolve_ivar(&self, map, sym)
resolve_ivar(self, map, sym) ==
    IF ~HasSeg(sym, 1) THEN NoResolution
    ELSE IF sym[1].k = "Index"
    THEN IF HasSeg(sym, 2) /\ sym[2].k = "Index"
         THEN resolve_ivar_at(map, sym, 2, <<sym[1].v, sym[2].v>>)
         ELSE NoResolution
    ELSE IF sym[1].k = "Name"
    THEN IF sym[1].v \in DOMAIN self.var_name_map
              /\ self.var_name_map[sym[1].v].kind = "Input"
         THEN resolve_ivar_at(map, sym, 1, self.var_name_map[sym[1].v].at)
         ELSE NoResolution
    ELSE NoResolution

\* pub fn resolve_input(&self, sym)
resolve_input(self, sym) == resolve_ivar(self, self.output_map, sym)

\* pub fn resolve_output(&self, sym)
resolve_output(self, sym) == resolve_ivar(self, self.input_map, sym)

(***************************************************************************)
(* Descriptor resolution.  The members of a descriptor's underlying type   *)
(* (ty.rs): descriptor type t holds t - 1 members; member i lies at offset *)
(* i, has a scalar type, and is named i + 1 when that is a name.           *)
(***************************************************************************)
MemberCount(desc_ty) == desc_ty - 1

MemberType(i) == (i % NumTy) + 1

NoMember == [some |-> FALSE, offset |-> 0, ty |-> 0]

MemberVariableResolution(offset, ty) == [some |-> TRUE, offset |-> offset, ty |-> ty]

\* The member a segment selects: an index selects by position, a name by
\* member name; -1 when the segment selects nothing.
MemberOf(desc_ty, seg) ==
    LET i == IF seg.k = "Index" THEN seg.v
             ELSE IF seg.k = "Name" THEN seg.v - 1 ELSE -1
    IN  IF i >= 0 /\ i < MemberCount(desc_ty) THEN i ELSE -1

\* DescriptorType::resolve (ty.rs) on the remaining symbol: None when it is
\* empty or a segment cannot be matched (a scalar member has nothing to
\* descend into), else the member's offset and type.
DescriptorType_resolve(desc_ty, rem_sym) ==
    IF rem_sym = << >> THEN NoMember
    ELSE IF MemberOf(desc_ty, rem_sym[1]) = -1 THEN NoMember
    ELSE IF Len(rem_sym) > 1 THEN NoMember
    ELSE MemberVariableResolution(MemberOf(desc_ty, rem_sym[1]),
                                  MemberType(MemberOf(desc_ty, rem_sym[1])))

NoDescResolution ==
    [some |-> FALSE, desc_bind |-> <<0, 0>>, desc_ty |-> 0, member_var_res |-> NoMember]

DescriptorResolution(desc_bind, desc_ty, member_var_res) ==
    [some |-> TRUE, desc_bind |-> desc_bind, desc_ty |-> desc_ty,
     member_var_res |-> member_var_res]

\* segs.remaining() after `used` segments were taken.
remaining(sym, used) == SubSeq(sym, used + 1, Len(sym))

\* The tail of resolve_desc once the binding is known: the lookup in desc_map
\* and the descent into the remaining symbol.
resolve_desc_at(self, sym, used, desc_bind) ==
    IF desc_bind \notin DOMAIN self.desc_map THEN NoDescResolution
    ELSE DescriptorResolution(desc_bind, self.desc_map[desc_bind],
             DescriptorType_resolve(self.desc_map[desc_bind], remaining(sym, used)))

\* resolve_desc that gives up when the member cannot be resolved.
resolve_desc_strict(self, sym) ==
    LET r == IF ~HasSeg(sym, 1) THEN NoDescResolution
             ELSE IF sym[1].k = "Index"
             THEN IF HasSeg(sym, 2) /\ sym[2].k = "Index"
                  THEN resolve_desc_at(self, sym, 2, <<sym[1].v, sym[2].v>>)
                  ELSE NoDescResolution
             ELSE IF sym[1].k = "Name"
             THEN IF sym[1].v \in DOMAIN self.var_name_map
                       /\ self.var_name_map[sym[1].v].kind = "Descriptor"
                  THEN resolve_desc_at(self, sym, 1, self.var_name_map[sym[1].v].at)
                  ELSE NoDescResolution
             ELSE NoDescResolution
    IN  IF r.some /\ ~r.member_var_res.some THEN NoDescResolution ELSE r

\* pub fn resolve_desc(&self, sym)
resolve_desc(self, sym) ==
    IF ~HasSeg(sym, 1) THEN NoDescResolution
    ELSE IF sym[1].k = "Index"
    THEN IF HasSeg(sym, 2) /\ sym[2].k = "Index"
         THEN resolve_desc_at(self, sym, 2, <<sym[1].v, sym[2].v>>)
         ELSE NoDescResolution
    ELSE IF sym[1].k = "Name"
    THEN IF sym[1].v \in DOMAIN self.var_name_map
              /\ self.var_name_map[sym[1].v].kind = "Descriptor"
         THEN resolve_desc_at(self, sym, 1, self.var_name_map[sym[1].v].at)
         ELSE NoDescResolution
    ELSE NoDescResolution

(***************************************************************************)
(* impl From<Vec<u8>> for SpirvBinary                                      *)
(***************************************************************************)
LittleEndianTag == 3
BigEndianTag == 7
ByteRadix == 256

\* u32::from_le_bytes
from_le_bytes(b) ==
    b[1] + ByteRadix * (b[2] + ByteRadix * (b[3] + ByteRadix * b[4]))

\* u32::from_be_bytes
from_be_bytes(b) ==
    b[4] + ByteRadix * (b[3] + ByteRadix * (b[2] + ByteRadix * b[1]))

\* x.chunks_exact(4): the complete 4-byte chunks, the remainder left out.
chunks_exact(x) ==
    [i \in 1..(Len(x) \div 4) |-> SubSeq(x, 4 * (i - 1) + 1, 4 * i)]

\* The conversion with both tags decoded as little-endian.
From_Vec_u8_le_only(x) ==
    IF Len(x) = 0 THEN << >>
    ELSE IF x[1] = LittleEndianTag \/ x[1] = BigEndianTag
    THEN [i \in 1..Len(chunks_exact(x)) |-> from_le_bytes(chunks_exact(x)[i])]
    ELSE << >>

\* fn from(x: Vec<u8>) -> SpirvBinary: the words of the binary.
From_Vec_u8(x) ==
    IF Len(x) = 0 THEN << >>
    ELSE IF x[1] = LittleEndianTag
    THEN [i \in 1..Len(chunks_exact(x)) |-> from_le_bytes(chunks_exact(x)[i])]
    ELSE IF x[1] = BigEndianTag
    THEN [i \in 1..Len(chunks_exact(x)) |-> from_be_bytes(chunks_exact(x)[i])]
    ELSE << >>

\* The byte values buffers are drawn from.
ByteVals == {LittleEndianTag, BigEndianTag} \cup (0..MaxOtherByte)

\* u32::to_le_bytes / u32::to_be_bytes of one word.
to_le_bytes(w) ==
    <<w % ByteRadix, (w \div ByteRadix) % ByteRadix,
      (w \div (ByteRadix * ByteRadix)) % ByteRadix,
      (w \div (ByteRadix * ByteRadix * ByteRadix)) % ByteRadix>>

to_be_bytes(w) ==
    <<(w \div (ByteRadix * ByteRadix * ByteRadix)) % ByteRadix,
      (w \div (ByteRadix * ByteRadix)) % ByteRadix,
      (w \div ByteRadix) % ByteRadix, w % ByteRadix>>

\* The byte encoding of a word sequence, word by word.
RECURSIVE EncodeWords(_, _)
EncodeWords(ws, le) ==
    IF ws = << >> THEN << >>
    ELSE (IF le THEN to_le_bytes(Head(ws)) ELSE to_be_bytes(Head(ws)))
            \o EncodeWords(Tail(ws), le)

\* The 32-bit words whose bytes are byte values of the model.
Words == {from_le_bytes(b) : b \in [1..4 -> ByteVals]}

WordSeqs == UNION {[1..n -> Words] : n \in 0..MaxWords}

Tails == UNION {[1..n -> ByteVals] : n \in 0..MaxTail}

(***************************************************************************)
(* State.                                                                  *)
(***************************************************************************)
VARIABLES
    self,       \* the destination manifest
    other,      \* the argument of the last merge
    pre,        \* self as it was when the last merge was called
    result,     \* what the last merge returned: "none", "Ok", "Err", "Panic"
    nmerge,     \* merges called so far
    merged,     \* access maps of the first manifest and of each manifest merged with Ok
    mA, mB, mC, \* three manifests merged in both groupings
    x, y, z,    \* x: A then (A.B).C;  y: B then B.C;  z: A then A.(B.C)
    apc,        \* merges of the two groupings done so far; -1 once one failed
    sym,        \* the symbol last resolved
    rop,        \* the resolver last called: "none", "input", "output", "desc"
    rres,       \* what it returned
    words,      \* the word sequence that is encoded
    tail,       \* bytes that follow the encoded words in the buffer
    binLE,      \* SpirvBinary from the little-endian buffer, once converted
    binBE       \* SpirvBinary from the big-endian buffer, once converted

mergeVars == <<self, other, pre, result, nmerge, merged>>
assocVars == <<mA, mB, mC, x, y, z, apc>>
resolveVars == <<sym, rop, rres>>
ingressVars == <<words, tail, binLE, binBE>>
vars == <<mergeVars, assocVars, resolveVars, ingressVars>>

Seeds == Manifests(MaxEntries)

ChainSeeds == Manifests(ChainEntries)

InitMerge(S) ==
    /\ self \in S
    /\ other = DefaultManifest
    /\ pre = self
    /\ result = "none"
    /\ nmerge = 0
    /\ merged = <<self.desc_access_map>>

IdleAssoc ==
    /\ mA = DefaultManifest /\ mB = DefaultManifest /\ mC = DefaultManifest
    /\ x = DefaultManifest /\ y = DefaultManifest /\ z = DefaultManifest
    /\ apc = 0

IdleResolve == sym = << >> /\ rop = "none" /\ rres = NoResolution

NotConverted == [done |-> FALSE, words |-> << >>]

SpirvBinary(ws) == [done |-> TRUE, words |-> ws]

IdleIngress ==
    words = << >> /\ tail = << >> /\ binLE = NotConverted /\ binBE = NotConverted

Init == InitMerge(Seeds) /\ IdleAssoc /\ IdleResolve /\ IdleIngress

\* self.merge(&o), as call number nmerge + 1 of at most `most`.
Merge(o, most) ==
    /\ nmerge < most
    /\ \E dorder \in Orders(DOMAIN o.desc_map), norder \in Orders(DOMAIN o.var_name_map) :
          LET r == merge(self, o, dorder, norder)
          IN  /\ self' = r.m
              /\ result' = r.res
              /\ merged' = IF r.res = "Ok" THEN Append(merged, o.desc_access_map)
                           ELSE merged
    /\ other' = o
    /\ pre' = self
    /\ nmerge' = nmerge + 1
    /\ UNCHANGED <<assocVars, resolveVars, ingressVars>>

Next == \E o \in Seeds : Merge(o, MaxMerges)

Spec == Init /\ [][Next]_vars

(***************************************************************************)
(* A chain of merges into one manifest.                                    *)
(***************************************************************************)
ChainInit == InitMerge(ChainSeeds) /\ IdleAssoc /\ IdleResolve /\ IdleIngress

ChainNext == \E o \in ChainSeeds : Merge(o, MaxChain)

ChainSpec == ChainInit /\ [][ChainNext]_vars

(***************************************************************************)
(* Three manifests merged as (A.B).C in x and as A.(B.C) in z.             *)
(***************************************************************************)
AssocInit ==
    /\ mA \in ChainSeeds /\ mB \in ChainSeeds /\ mC \in ChainSeeds
    /\ x = mA /\ y = mB /\ z = mA
    /\ apc = 0
    /\ InitMerge({DefaultManifest}) /\ IdleResolve /\ IdleIngress

\* One merge call of the two groupings: dst.merge(&src).
AssocMerge(dst, src) ==
    \E dorder \in Orders(DOMAIN src.desc_map), norder \in Orders(DOMAIN src.var_name_map) :
        LET r == merge(dst, src, dorder, norder)
        IN  /\ apc' = IF r.res = "Ok" THEN apc + 1 ELSE -1
            /\ \/ apc = 0 /\ x' = r.m /\ UNCHANGED <<y, z>>
               \/ apc = 1 /\ x' = r.m /\ UNCHANGED <<y, z>>
               \/ apc = 2 /\ y' = r.m /\ UNCHANGED <<x, z>>
               \/ apc = 3 /\ z' = r.m /\ UNCHANGED <<x, y>>

\* x.merge(&B); x.merge(&C); y.merge(&C); z.merge(&y)
AssocStep ==
    /\ apc \in 0..3
    /\ AssocMerge(CASE apc = 0 -> x [] apc = 1 -> x [] apc = 2 -> y [] OTHER -> z,
                  CASE apc = 0 -> mB [] apc = 1 -> mC [] apc = 2 -> mC [] OTHER -> y)
    /\ UNCHANGED <<mA, mB, mC, mergeVars, resolveVars, ingressVars>>

AssocNext == AssocStep

AssocSpec == AssocInit /\ [][AssocNext]_vars

(***************************************************************************)
(* Symbols resolved against a manifest.                                    *)
(***************************************************************************)
ResolveInit == InitMerge(Seeds) /\ IdleAssoc /\ IdleResolve /\ IdleIngress

ResolveInput(s) ==
    /\ rop = "none"
    /\ sym' = s
    /\ rop' = "input"
    /\ rres' = resolve_input(self, s)
    /\ UNCHANGED <<mergeVars, assocVars, ingressVars>>

ResolveOutput(s) ==
    /\ rop = "none"
    /\ sym' = s
    /\ rop' = "output"
    /\ rres' = resolve_output(self, s)
    /\ UNCHANGED <<mergeVars, assocVars, ingressVars>>

ResolveDesc(s) ==
    /\ rop = "none"
    /\ sym' = s
    /\ rop' = "desc"
    /\ rres' = resolve_desc(self, s)
    /\ UNCHANGED <<mergeVars, assocVars, ingressVars>>

ResolveNext == \E s \in Sym : ResolveInput(s) \/ ResolveOutput(s) \/ ResolveDesc(s)

ResolveSpec == ResolveInit /\ [][ResolveNext]_vars

(***************************************************************************)
(* Byte buffers converted to a SpirvBinary: the little-endian and the      *)
(* big-endian encoding of `words`, each followed by `tail`.                *)
(***************************************************************************)
IngressInit ==
    /\ words \in WordSeqs
    /\ tail \in Tails
    /\ binLE = NotConverted
    /\ binBE = NotConverted
    /\ InitMerge({DefaultManifest}) /\ IdleAssoc /\ IdleResolve

BufferLE == EncodeWords(words, TRUE) \o tail

BufferBE == EncodeWords(words, FALSE) \o tail

FromLE ==
    /\ ~binLE.done
    /\ binLE' = SpirvBinary(From_Vec_u8(BufferLE))
    /\ UNCHANGED <<words, tail, binBE, mergeVars, assocVars, resolveVars>>

FromBE ==
    /\ ~binBE.done
    /\ binBE' = SpirvBinary(From_Vec_u8(BufferBE))
    /\ UNCHANGED <<words, tail, binLE, mergeVars, assocVars, resolveVars>>

IngressNext == FromLE \/ FromBE

IngressSpec == IngressInit /\ [][IngressNext]_vars

(***************************************************************************)
(* Conflicts between the manifest a merge starts from and its argument.    *)
(***************************************************************************)
PushConstConflict(a, b) ==
    /\ a.push_const_ty.some /\ b.push_const_ty.some
    /\ \E off \in (DOMAIN a.push_const_ty.members) \cap (DOMAIN b.push_const_ty.members) :
          a.push_const_ty.members[off] /= b.push_const_ty.members[off]

DescConflict(a, b) ==
    \E bind \in (DOMAIN a.desc_map) \cap (DOMAIN b.desc_map) :
        a.desc_map[bind] % HashMod /= b.desc_map[bind] % HashMod

NameConflict(a, b) ==
    \E n \in (DOMAIN a.var_name_map) \cap (DOMAIN b.var_name_map) :
        a.var_name_map[n] /= b.var_name_map[n]

Called == result /= "none"

(***************************************************************************)
(* C1.  Manifest::merge is all-or-nothing: when merge returns an error,    *)
(* every field of self equals its value before the call.                   *)
(***************************************************************************)
C1_MergeAllOrNothing == result = "Err" => self = pre

(***************************************************************************)
(* C2.  resolve_input resolves against input_map and resolve_output        *)
(* against output_map: a symbol of exactly two integers L.C gives          *)
(* {(L,C), map[(L,C)]} when (L,C) is a key of that map and not-found       *)
(* otherwise; a single name gives the location var_name_map holds for it;  *)
(* any symbol with further segments is not-found.                          *)
(***************************************************************************)
C2_Map == IF rop = "input" THEN self.input_map ELSE self.output_map

C2_Kind == IF rop = "input" THEN "Input" ELSE "Output"

C2_Expected(location) ==
    IF location \in DOMAIN C2_Map
    THEN InterfaceVariableResolution(location, C2_Map[location])
    ELSE NoResolution

C2_ResolveAgainstOwnMap ==
    rop \in {"input", "output"} =>
        /\ (Len(sym) = 2 /\ sym[1].k = "Index" /\ sym[2].k = "Index")
              => rres = C2_Expected(<<sym[1].v, sym[2].v>>)
        /\ (/\ Len(sym) = 1 /\ sym[1].k = "Name"
            /\ sym[1].v \in DOMAIN self.var_name_map
            /\ self.var_name_map[sym[1].v].kind = C2_Kind)
              => rres = C2_Expected(self.var_name_map[sym[1].v].at)
        /\ Len(sym) > 2 => rres = NoResolution

(***************************************************************************)
(* C3.  After a successful self.merge(other), self.output_map equals       *)
(* other.output_map (also when other has no outputs) and self.input_map is *)
(* what it was before the call.                                            *)
(***************************************************************************)
C3_OutputsReplacedInputsKept ==
    result = "Ok" =>
        /\ self.output_map = other.output_map
        /\ self.input_map = pre.input_map

C3_Witness ==
    /\ result = "Ok"
    /\ pre.output_map /= EmptyMap /\ pre.input_map /= EmptyMap
    /\ other.output_map = EmptyMap
    /\ self.output_map = EmptyMap

(***************************************************************************)
(* C4.  Descriptor merge is a union with conflict detection.  After a      *)
(* successful merge the keys of self.desc_map are the keys of both, a      *)
(* binding of one manifest carries that manifest's type, a binding of both *)
(* keeps self's type.  As claimed: absent a name conflict, merge fails if  *)
(* and only if some binding of both manifests has types that are not       *)
(* hash-equal.                                                             *)
(***************************************************************************)
C4_DescUnion ==
    result = "Ok" =>
        /\ DOMAIN self.desc_map = (DOMAIN pre.desc_map) \cup (DOMAIN other.desc_map)
        /\ \A bind \in DOMAIN self.desc_map :
              self.desc_map[bind] = IF bind \in DOMAIN pre.desc_map
                                    THEN pre.desc_map[bind]
                                    ELSE other.desc_map[bind]

C5_NameUnion ==
    /\ (Called /\ NameConflict(pre, other)) => result = "Err"
    /\ result = "Ok" =>
          /\ DOMAIN self.var_name_map
                = (DOMAIN pre.var_name_map) \cup (DOMAIN other.var_name_map)
          /\ \A n \in DOMAIN pre.var_name_map : self.var_name_map[n] = pre.var_name_map[n]
          /\ \A n \in DOMAIN other.var_name_map : self.var_name_map[n] = other.var_name_map[n]

C5_Witness ==
    /\ result = "Err"
    /\ NameConflict(pre, other)
    /\ ~DescConflict(pre, other) /\ ~PushConstConflict(pre, other)
    /\ \E n \in DOMAIN other.var_name_map :
          /\ n \in DOMAIN pre.var_name_map
          /\ pre.var_name_map[n].at = other.var_name_map[n].at
          /\ pre.var_name_map[n].kind = "Input" /\ other.var_name_map[n].kind = "Output"

(***************************************************************************)
(* C6.  Access merge is a per-binding bitwise OR that stays in range:      *)
(* with every stored access in {1,2,3}, after any sequence of successful   *)
(* merges each binding's access in self is the OR of the accesses the      *)
(* merged manifests recorded for it, every stored value is in {1,2,3} (so  *)
(* none is 0), and the OR-then-convert step never panics.                  *)
(***************************************************************************)
C6_Recorded(bind) == {merged[i][bind] : i \in {j \in 1..Len(merged) : bind \in DOMAIN merged[j]}}

C6_AccessOr ==
    /\ result /= "Panic"
    /\ DOMAIN self.desc_access_map = UNION {DOMAIN merged[i] : i \in 1..Len(merged)}
    /\ \A bind \in DOMAIN self.desc_access_map :
          /\ self.desc_access_map[bind] \in {1, 2, 3}
          /\ (self.desc_access_map[bind] % 2 = 1)
                <=> (\E a \in C6_Recorded(bind) : a % 2 = 1)
          /\ ((self.desc_access_map[bind] \div 2) % 2 = 1)
                <=> (\E a \in C6_Recorded(bind) : (a \div 2) % 2 = 1)

C6_Witness ==
    /\ result = "Ok" /\ Len(merged) = 3
    /\ \E bind \in DOMAIN self.desc_access_map :
          /\ \A i \in 1..3 : bind \in DOMAIN merged[i]
          /\ merged[1][bind] = ReadOnly /\ merged[2][bind] = ReadOnly
          /\ merged[3][bind] = WriteOnly
          /\ self.desc_access_map[bind] = ReadWrite

(***************************************************************************)
(* C7.  merge is associative for compatible manifests: when every merge    *)
(* involved succeeds, merging (B merged with C) into A gives a manifest    *)
(* equal, field by field, to merging C into (A merged with B).             *)
(***************************************************************************)
C7_MergeAssociative == apc = 4 => x = z

C7_Witness ==
    /\ apc = 4
    /\ x = z
    /\ \E bind \in DOMAIN mA.desc_map :
          /\ bind \in DOMAIN mB.desc_map /\ bind \in DOMAIN mC.desc_map
          /\ mA.desc_map[bind] /= mB.desc_map[bind]
          /\ mB.desc_access_map[bind] /= mC.desc_access_map[bind]

C9_RaggedIsEmpty ==
    /\ (binLE.done /\ Len(BufferLE) % 4 /= 0) => binLE.words = << >>
    /\ (binBE.done /\ Len(BufferBE) % 4 /= 0) => binBE.words = << >>

(***************************************************************************)
(* C10.  Byte-buffer ingress is endianness-agnostic.  As claimed: for      *)
(* every word sequence, its little-endian and its big-endian byte encoding *)
(* convert to the same word sequence; a first byte 0x03 selects            *)
(* little-endian decoding, 0x07 big-endian decoding, any other first byte  *)
(* (or an empty buffer) gives the empty module.                            *)
(***************************************************************************)
C10_FirstByteSelects ==
    /\ binLE.done =>
          /\ (BufferLE /= << >> /\ BufferLE[1] = 3) => binLE.words = words
          /\ (BufferLE = << >> \/ BufferLE[1] \notin {3, 7}) => binLE.words = << >>
    /\ binBE.done =>
          /\ (BufferBE /= << >> /\ BufferBE[1] = 7) => binBE.words = words
          /\ (BufferBE = << >> \/ BufferBE[1] \notin {3, 7}) => binBE.words = << >>

C10_Original ==
    /\ C10_FirstByteSelects
    /\ (binLE.done /\ binBE.done /\ tail = << >>) => binLE.words = binBE.words

C10_MagicLed ==
    words = << >> \/ (words[1] % 256 = 3 /\ words[1] \div (256 * 256 * 256) = 7)

\* C10, amended: the two encodings convert to the same word sequence for every
\* word sequence that is empty or whose first word has 0x03 as its least and
\* 0x07 as its most significant byte (as the SPIR-V magic has); the rule of the
\* first byte is as claimed.
C10_Amended ==
    /\ C10_FirstByteSelects
    /\ (binLE.done /\ binBE.done /\ tail = << >> /\ C10_MagicLed)
          => (binLE.words = binBE.words /\ binLE.words = words)

C10_Witness ==
    /\ binLE.done /\ binBE.done /\ tail = << >>
    /\ Len(words) = 2 /\ C10_MagicLed
    /\ words[2] % 256 /= words[2] \div (256 * 256 * 256)
    /\ binLE.words = words /\ binBE.words = words

(***************************************************************************)
(* C11.  resolve_desc returns the descriptor-level result whenever the     *)
(* descriptor can be identified, whatever the rest of the symbol: when the *)
(* symbol starts with two integers S.B, or with a name that var_name_map   *)
(* maps to Descriptor(S,B), and (S,B) is a key of desc_map, the result has *)
(* desc_bind = (S,B) and desc_ty = desc_map[(S,B)], with member_var_res =  *)
(* None when the remaining symbol is empty or a remaining segment cannot   *)
(* be matched.  It is not-found when the leading segment is empty, is an   *)
(* integer without a second integer, is a name that is absent or maps to   *)
(* an Input/Output locator, or when (S,B) is not a key of desc_map.        *)
(***************************************************************************)
C11_ByIndex == Len(sym) >= 2 /\ sym[1].k = "Index" /\ sym[2].k = "Index"

C11_ByName ==
    /\ Len(sym) >= 1 /\ sym[1].k = "Name"
    /\ sym[1].v \in DOMAIN self.var_name_map
    /\ self.var_name_map[sym[1].v].kind = "Descriptor"

C11_Identified == C11_ByIndex \/ C11_ByName

C11_Bind ==
    IF C11_ByIndex THEN <<sym[1].v, sym[2].v>> ELSE self.var_name_map[sym[1].v].at

C11_Rest == IF C11_ByIndex THEN SubSeq(sym, 3, Len(sym)) ELSE SubSeq(sym, 2, Len(sym))

\* A segment of the rest that matches no member: an index past the members, a
\* name no member has, or any segment after a scalar member was reached.
C11_Unmatched ==
    /\ C11_Rest /= << >>
    /\ \/ Len(C11_Rest) > 1
       \/ C11_Rest[1].k = "Index" /\ C11_Rest[1].v >= self.desc_map[C11_Bind] - 1
       \/ C11_Rest[1].k = "Name" /\ C11_Rest[1].v > self.desc_map[C11_Bind] - 1

C11_DescriptorLevelResult ==
    rop = "desc" =>
        IF C11_Identified /\ C11_Bind \in DOMAIN self.desc_map
        THEN /\ rres.some
             /\ rres.desc_bind = C11_Bind
             /\ rres.desc_ty = self.desc_map[C11_Bind]
             /\ (C11_Rest = << >> \/ C11_Unmatched) => ~rres.member_var_res.some
        ELSE ~rres.some

C11_Witness ==
    /\ rop = "desc"
    /\ C11_ByName
    /\ C11_Bind \in DOMAIN self.desc_map
    /\ C11_Unmatched
    /\ rres.some /\ rres.desc_bind = C11_Bind /\ ~rres.member_var_res.some

====
